---- MODULE Spec2Model ----
(***************************************************************************)
(* A model of notion_kanban_cli: the Schema Model (DatabaseSchema), the     *)
(* process-wide SchemaCache with get_database_schema, and the CLI command   *)
(* handlers of cli.py with the filter construction of `query`.              *)
(*                                                                          *)
(* Conventions.  A Python str is a sequence of one-character strings, so    *)
(* that split, strip and lower are computed and not assumed.  An optional   *)
(* value (Python None or a value) is None or Some(v).  A dict that keeps    *)
(* insertion order (the "properties" of a schema payload) is a sequence of  *)
(* [name, def] entries with pairwise different names.                       *)
(***************************************************************************)
EXTENDS Naturals, Sequences, FiniteSets, TLC

VARIABLES
    environ,    \* os.environ["NOTION_API_KEY"]: None or Some(key)
    remote,     \* the remote service: database id -> schema payload, or a property payload
    heap,       \* the DatabaseSchema instances of the process, by reference
    _schemas,   \* SchemaCache._schemas: a set of [id, ref] entries
    ret,        \* the last call of a library function: [op, arg, ret]
    trace,      \* observations: calls made, scans of the field definitions, fetches
    run         \* the CLI command of this process: arguments, transport calls, outputs

vars == <<environ, remote, heap, _schemas, ret, trace, run>>

-----------------------------------------------------------------------------
(* Bounds of the model. *)

MaxOptions == 2     \* declared options of one status / multi_select field
MaxCalls == 2       \* method calls on one Schema Model
MaxTagsLen == 2     \* characters of the --tags argument
MaxFilterLen == 2   \* characters of the --filter argument
MaxResolutions == 4 \* calls of get_database_schema in one process
MaxItems == 2       \* entries of a list in a property payload
MaxDepth == 2       \* formula payloads nested in one another

Names == {<<"S">>, <<"t">>}                  \* field names of schema payloads
Types == {"status", "multi_select", "select", "title"}
OptionNames == {<<>>, <<"A">>, <<"B">>}      \* option names, "" among them
Databases == {"db1", "db2"}

-----------------------------------------------------------------------------
(* Python values. *)

\* None, and a value that is not None; neither equals a str or a list
None == <<"None">>
Some(v) == <<"Some", v>>
Get(o) == o[2]

\* truth value of a str or a list
Truthy(s) == s # <<>>

\* truth value of an optional str: None and "" are false
TruthyOpt(o) == o # None /\ Get(o) # <<>>

SeqsUpTo(S, n) == UNION {[1..k -> S] : k \in 0..n}

Range(s) == {s[i] : i \in DOMAIN s}

\* str.lower() over the letters the model uses
lower_char(c) == CASE c = "S" -> "s" [] c = "T" -> "t" [] OTHER -> c

lower(s) == [i \in DOMAIN s |-> lower_char(s[i])]

RECURSIVE lstrip(_)
lstrip(s) == IF s # <<>> /\ Head(s) = " " THEN lstrip(Tail(s)) ELSE s

RECURSIVE rstrip(_)
rstrip(s) ==
    IF s # <<>> /\ s[Len(s)] = " " THEN rstrip(SubSeq(s, 1, Len(s) - 1)) ELSE s

\* str.strip()
strip(s) == rstrip(lstrip(s))

-----------------------------------------------------------------------------
(* Schema payloads: what GET /databases/{id} returns. *)

\* an option of a field: {"name": n} or an option without a name
Options == {None} \cup {Some(n) : n \in OptionNames}

OptionLists == SeqsUpTo(Options, MaxOptions)

\* a field definition: its type tag and, for status and multi_select, the
\* declared options under the key named like the type
FieldDefs ==
    {[type |-> t, options |-> o] : t \in {"status", "multi_select"}, o \in OptionLists}
    \cup {[type |-> t, options |-> <<>>] : t \in {"select", "title"}}

\* the keys of a "properties" dict in their order: pairwise different names
KeyLists ==
    {k \in SeqsUpTo(Names, Cardinality(Names)) :
        \A i, j \in DOMAIN k : k[i] = k[j] => i = j}

\* schema payloads: {"properties": {name: definition, ...}}
\* the definitions a payload may give to the keys k, one choice per key
DefsFor(k, defs) == [DOMAIN k -> defs]

\* the schema payload {"properties": {k[1]: d[1], ...}}
Payload(k, d) == [properties |-> [i \in DOMAIN k |-> [name |-> k[i], def |-> d[i]]]]

-----------------------------------------------------------------------------
(* schema.py: DatabaseSchema.  A method is an operator from the instance    *)
(* to [ret, self, scans]: the value returned, the instance after the call   *)
(* and the number of passes over the field definitions the call made.       *)

DatabaseSchema(database_id, schema_data) ==
    [database_id |-> database_id,
     schema_data |-> schema_data,
     _status_property_name |-> None,
     _tag_property_names |-> <<>>]

properties(self) == self.schema_data.properties

\* a variant that keeps the last status field it meets
RECURSIVE status_scan_last(_, _)
status_scan_last(props, i) ==
    IF i > Len(props) THEN None
    ELSE LET rest == status_scan_last(props, i + 1) IN
         IF rest # None THEN rest
         ELSE IF props[i].def.type = "status" THEN Some(props[i].name)
         ELSE None

\* the loop of get_status_property_name from entry i on: the first status field
RECURSIVE status_scan(_, _)
status_scan(props, i) ==
    IF i > Len(props) THEN None
    ELSE IF props[i].def.type = "status" THEN Some(props[i].name)
    ELSE status_scan(props, i + 1)

get_status_property_name(self) ==
    IF self._status_property_name # None
    THEN [ret |-> self._status_property_name, self |-> self, scans |-> 0]
    ELSE LET found == status_scan(properties(self), 1) IN
         [ret |-> found,
          self |-> IF found # None
                   THEN [self EXCEPT !._status_property_name = found]
                   ELSE self,
          scans |-> 1]

\* a variant that stops at the first multi_select field
RECURSIVE tag_scan_first(_, _)
tag_scan_first(props, i) ==
    IF i > Len(props) THEN <<>>
    ELSE IF props[i].def.type = "multi_select" THEN <<props[i].name>>
    ELSE tag_scan_first(props, i + 1)

\* the loop of get_tag_property_names from entry i on
RECURSIVE tag_scan(_, _)
tag_scan(props, i) ==
    IF i > Len(props) THEN <<>>
    ELSE IF props[i].def.type = "multi_select"
         THEN <<props[i].name>> \o tag_scan(props, i + 1)
         ELSE tag_scan(props, i + 1)

get_tag_property_names(self) ==
    IF Truthy(self._tag_property_names)
    THEN [ret |-> self._tag_property_names, self |-> self, scans |-> 0]
    ELSE LET tag_names == tag_scan(properties(self), 1) IN
         [ret |-> tag_names,
          self |-> [self EXCEPT !._tag_property_names = tag_names],
          scans |-> 1]

\* self.properties.get(name, {}): the definition under exactly this key
properties_get(self, name) ==
    LET hits == {i \in DOMAIN properties(self) : properties(self)[i].name = name} IN
    IF hits = {} THEN None ELSE Some(properties(self)[CHOOSE i \in hits : TRUE].def)

\* a variant that keeps every option that has a name key
HasNameKey(opt) == opt # None

\* if opt.get("name")
IsNamed(opt) == TruthyOpt(opt)

OptName(opt) == IF opt = None THEN <<>> ELSE Get(opt)

\* [opt.get("name", "") for opt in options if opt.get("name")]
option_names(options) ==
    LET kept == SelectSeq(options, IsNamed) IN
    [i \in DOMAIN kept |-> OptName(kept[i])]

\* prop_def.get(key, {}).get("options", [])
declared_options(prop_def, key) ==
    IF prop_def # None /\ Get(prop_def).type = key THEN Get(prop_def).options ELSE <<>>

get_status_options(self) ==
    LET r == get_status_property_name(self) IN
    IF ~TruthyOpt(r.ret)
    THEN [ret |-> <<>>, self |-> r.self, scans |-> r.scans]
    ELSE [ret |-> option_names(
                      declared_options(properties_get(r.self, Get(r.ret)), "status")),
          self |-> r.self,
          scans |-> r.scans]

get_tag_options(self, tag_property) ==
    [ret |-> option_names(
                 declared_options(properties_get(self, tag_property), "multi_select")),
     self |-> self,
     scans |-> 0]

\* the loop of find_property_by_name from entry i on
RECURSIVE find_scan(_, _, _)
find_scan(props, name_lower, i) ==
    IF i > Len(props) THEN None
    ELSE IF lower(props[i].name) = name_lower THEN Some(props[i].def)
    ELSE find_scan(props, name_lower, i + 1)

find_property_by_name(self, name) ==
    [ret |-> find_scan(properties(self), lower(name), 1), self |-> self, scans |-> 0]

-----------------------------------------------------------------------------
(* The Schema Model on its own: one instance, its methods called in any     *)
(* order.                                                                   *)

NoRun == [cmd |-> "none", done |-> FALSE]
NoRet == [op |-> "none"]
NoTrace ==
    [calls |-> 0, status_scans |-> 0, tag_scans |-> 0,
     resolved |-> [d \in Databases |-> 0],     \* resolutions that returned, since clear()
     fetched |-> [d \in Databases |-> 0],      \* fetches by and after the first of them
     first |-> [d \in Databases |-> None]]     \* the first model resolved, since clear()

InitSchema ==
    /\ environ = None
    /\ remote = <<>>
    /\ \E k \in KeyLists : \E d \in DefsFor(k, FieldDefs) :
           heap = <<DatabaseSchema("db1", Payload(k, d))>>
    /\ _schemas = {}
    /\ ret = NoRet
    /\ trace = NoTrace
    /\ run = NoRun

\* the effect of a method call r on the instance at reference 1
Called(op, arg, r) ==
    /\ heap' = [heap EXCEPT ![1] = r.self]
    /\ ret' = [op |-> op, arg |-> arg, ret |-> r.ret]
    /\ trace' = [trace EXCEPT
                   !.calls = @ + 1,
                   !.status_scans =
                       @ + (IF op \in {"get_status_property_name", "get_status_options"}
                            THEN r.scans ELSE 0),
                   !.tag_scans =
                       @ + (IF op = "get_tag_property_names" THEN r.scans ELSE 0)]
    /\ UNCHANGED <<environ, remote, _schemas, run>>

CallGetStatusPropertyName ==
    /\ trace.calls < MaxCalls
    /\ Called("get_status_property_name", None, get_status_property_name(heap[1]))

CallGetTagPropertyNames ==
    /\ trace.calls < MaxCalls
    /\ Called("get_tag_property_names", None, get_tag_property_names(heap[1]))

CallGetStatusOptions ==
    /\ trace.calls < MaxCalls
    /\ Called("get_status_options", None, get_status_options(heap[1]))

CallGetTagOptions ==
    /\ trace.calls < MaxCalls
    /\ \E tag_property \in Names :
           Called("get_tag_options", Some(tag_property),
                  get_tag_options(heap[1], tag_property))

CallFindPropertyByName ==
    /\ trace.calls < MaxCalls
    /\ \E name \in Names \cup {<<"s">>} :
           Called("find_property_by_name", Some(name),
                  find_property_by_name(heap[1], name))

NextSchema ==
    \/ CallGetStatusPropertyName
    \/ CallGetTagPropertyNames
    \/ CallGetStatusOptions
    \/ CallGetTagOptions
    \/ CallFindPropertyByName

SpecSchema == InitSchema /\ [][NextSchema]_vars

-----------------------------------------------------------------------------
(* client.py: the transport.  A response of the remote service is an input  *)
(* of the model: an HTTP response with its status code and body, or the     *)
(* request failing below HTTP (httpx raising).                              *)

Returned(v) == [raised |-> None, value |-> v]
Raised(e) == [raised |-> Some(e), value |-> None]

NotionAPIError(message, status_code) ==
    [type |-> "NotionAPIError", message |-> message, status_code |-> status_code]

\* a response with a body, and the responses that carry no result
Ok(body) == [kind |-> "http", status_code |-> 200, body |-> body]

Failures ==
    {[kind |-> "http", status_code |-> 404,
      body |-> [message |-> Some(<<"Could not find object">>)]],
     [kind |-> "http", status_code |-> 502, body |-> [message |-> None]],
     [kind |-> "error"]}

\* the responses to a request whose successful body is one of `bodies`
Responses(bodies) == {Ok(b) : b \in bodies} \cup Failures

_request(response) ==
    IF response.kind = "error"
    THEN Raised([type |-> "ConnectError", message |-> <<"connection failed">>])
    ELSE IF response.status_code >= 400
    THEN Raised(NotionAPIError(
             IF response.body.message # None THEN Get(response.body.message)
             ELSE <<"HTTP", response.status_code>>,
             response.status_code))
    ELSE Returned(response.body)

-----------------------------------------------------------------------------
(* schema.py: SchemaCache and get_database_schema.  A function of the       *)
(* process memory [heap, _schemas] returns [raised, value, heap, _schemas,  *)
(* calls]: calls are the transport calls it made, in order.                 *)

\* a variant that never finds an entry
SchemaCache_get_miss(schemas, database_id) == None

SchemaCache_get(schemas, database_id) ==
    LET hits == {e \in schemas : e.id = database_id} IN
    IF hits = {} THEN None ELSE Some((CHOOSE e \in hits : TRUE).ref)

\* self._schemas[database_id] = schema
SchemaCache_set(schemas, database_id, ref) ==
    {e \in schemas : e.id # database_id} \cup {[id |-> database_id, ref |-> ref]}

SchemaCache_clear(schemas) == {}

\* a variant that fetches a second time when the fetch fails
get_database_schema_retry(mem, database_id, response) ==
    LET cached == SchemaCache_get(mem._schemas, database_id) IN
    IF cached # None
    THEN [raised |-> None, value |-> cached, heap |-> mem.heap,
          _schemas |-> mem._schemas, calls |-> <<>>]
    ELSE LET r == _request(response)
             call == [method |-> "get_database", id |-> database_id]
             ref == Len(mem.heap) + 1 IN
         IF r.raised # None
         THEN [raised |-> r.raised, value |-> None, heap |-> mem.heap,
               _schemas |-> mem._schemas, calls |-> <<call, call>>]
         ELSE [raised |-> None, value |-> Some(ref),
               heap |-> Append(mem.heap, DatabaseSchema(database_id, r.value)),
               _schemas |-> SchemaCache_set(mem._schemas, database_id, ref),
               calls |-> <<call>>]

get_database_schema(mem, database_id, response) ==
    LET cached == SchemaCache_get(mem._schemas, database_id) IN
    IF cached # None
    THEN [raised |-> None, value |-> cached, heap |-> mem.heap,
          _schemas |-> mem._schemas, calls |-> <<>>]
    ELSE LET r == _request(response)
             call == [method |-> "get_database", id |-> database_id]
             ref == Len(mem.heap) + 1 IN
         IF r.raised # None
         THEN [raised |-> r.raised, value |-> None, heap |-> mem.heap,
               _schemas |-> mem._schemas, calls |-> <<call>>]
         ELSE [raised |-> None, value |-> Some(ref),
               heap |-> Append(mem.heap, DatabaseSchema(database_id, r.value)),
               _schemas |-> SchemaCache_set(mem._schemas, database_id, ref),
               calls |-> <<call>>]

-----------------------------------------------------------------------------
(* The schema cache on its own: one process resolving the schemas of its    *)
(* databases again and again while the remote schemas change.               *)

\* the payloads the remote databases hold in this specification
CachePayloads ==
    {[properties |-> <<>>],
     [properties |-> <<[name |-> <<"S">>, def |-> [type |-> "status", options |-> <<>>]]>>],
     [properties |-> <<[name |-> <<"S">>, def |-> [type |-> "title", options |-> <<>>]]>>]}

\* the memory of the process
Memory == [heap |-> heap, _schemas |-> _schemas]

InitCache ==
    /\ environ = Some(<<"k">>)
    /\ remote \in [Databases -> CachePayloads]
    /\ heap = <<>>
    /\ _schemas = {}
    /\ ret = NoRet
    /\ trace = NoTrace
    /\ run = NoRun

Resolve ==
    /\ trace.calls < MaxResolutions
    /\ \E database_id \in Databases :
       \E response \in Responses({remote[database_id]}) :
           LET r == get_database_schema(Memory, database_id, response)
               ok == r.raised = None IN
           /\ heap' = r.heap
           /\ _schemas' = r._schemas
           /\ ret' = [op |-> "get_database_schema", arg |-> database_id,
                      raised |-> r.raised, ret |-> r.value]
           /\ trace' = [trace EXCEPT
                          !.calls = @ + 1,
                          !.resolved[database_id] = @ + (IF ok THEN 1 ELSE 0),
                          !.fetched[database_id] =
                              @ + (IF /\ r.calls # <<>>
                                      /\ (ok \/ trace.first[database_id] # None)
                                   THEN 1 ELSE 0),
                          !.first[database_id] =
                              IF ok /\ @ = None
                              THEN Some([ref |-> Get(r.value),
                                         model |-> r.heap[Get(r.value)]])
                              ELSE @]
           /\ UNCHANGED <<environ, remote, run>>

\* the remote schema of a database changes
RemoteChange ==
    /\ \E database_id \in Databases :
       \E p \in CachePayloads \ {remote[database_id]} :
           remote' = [remote EXCEPT ![database_id] = p]
    /\ UNCHANGED <<environ, heap, _schemas, ret, trace, run>>

\* _schema_cache.clear()
Clear ==
    /\ _schemas' = SchemaCache_clear(_schemas)
    /\ ret' = [op |-> "clear"]
    /\ trace' = [trace EXCEPT !.resolved = NoTrace.resolved,
                              !.fetched = NoTrace.fetched,
                              !.first = NoTrace.first]
    /\ UNCHANGED <<environ, remote, heap, run>>

NextCache == Resolve \/ RemoteChange \/ Clear

SpecCache == InitCache /\ [][NextCache]_vars

-----------------------------------------------------------------------------
(* client.py, config.py: the client and its credential. *)

get_api_key(env) ==
    IF ~TruthyOpt(env)
    THEN Raised([type |-> "ValueError",
                 message |-> <<"NOTION_API_KEY environment variable not set">>])
    ELSE Returned(Get(env))

\* NotionClient(api_key): api_key or get_api_key()
NotionClient(api_key, env) ==
    IF TruthyOpt(api_key) THEN Returned([api_key |-> Get(api_key)])
    ELSE LET k == get_api_key(env) IN
         IF k.raised # None THEN k ELSE Returned([api_key |-> k.value])

-----------------------------------------------------------------------------
(* cli.py: the filter construction of `query` (lines 206-252).  Each branch *)
(* maps [filter_obj, self] to [filter_obj, self]: filter_obj is None or     *)
(* Some(filter), self the Schema Model, whose memo fields the lookups set.  *)

\* {"property": p, key: {op: value}}
Leaf(p, key, op, value) ==
    [property |-> p, key |-> key, condition |-> <<op, value>>]

\* {"and": leaves}
And(leaves) == [and |-> leaves]

\* s.split(sep): the pieces of s between the occurrences of the character sep
RECURSIVE split(_, _)
split(s, sep) ==
    LET at == {i \in DOMAIN s : s[i] = sep} IN
    IF at = {} THEN <<s>>
    ELSE LET i == CHOOSE k \in at : \A j \in at : k <= j IN
         <<SubSeq(s, 1, i - 1)>> \o split(SubSeq(s, i + 1, Len(s)), sep)

\* s.split(sep, 1) of a string that holds sep: the parts around the first sep
split_once(s, sep) ==
    LET at == {i \in DOMAIN s : s[i] = sep}
        i == CHOOSE k \in at : \A j \in at : k <= j IN
    <<SubSeq(s, 1, i - 1), SubSeq(s, i + 1, Len(s))>>

\* a variant that drops the empty tokens
tag_list_nonempty(tags) ==
    LET pieces == split(tags, ",")
        stripped == [i \in DOMAIN pieces |-> strip(pieces[i])] IN
    SelectSeq(stripped, Truthy)

\* a variant that does not strip the tokens
tag_list_unstripped(tags) == split(tags, ",")

\* [t.strip() for t in tags.split(",")]
tag_list_of(tags) ==
    LET pieces == split(tags, ",") IN [i \in DOMAIN pieces |-> strip(pieces[i])]

status_branch(st, status) ==
    IF ~TruthyOpt(status) THEN st
    ELSE LET r == get_status_property_name(st.self) IN
         IF TruthyOpt(r.ret)
         THEN [filter_obj |-> Some(Leaf(Get(r.ret), "status", "equals", Get(status))),
               self |-> r.self]
         ELSE [st EXCEPT !.self = r.self]

tags_branch(st, tags) ==
    IF ~TruthyOpt(tags) THEN st
    ELSE LET r == get_tag_property_names(st.self) IN
         IF Truthy(r.ret)
         THEN LET tag_list == tag_list_of(Get(tags))
                  tag_prop_name == r.ret[1] IN
              [filter_obj |->
                   IF Len(tag_list) = 1
                   THEN Some(Leaf(tag_prop_name, "multi_select", "contains", tag_list[1]))
                   ELSE Some(And([i \in DOMAIN tag_list |->
                            Leaf(tag_prop_name, "multi_select", "contains", tag_list[i])])),
               self |-> r.self]
         ELSE [st EXCEPT !.self = r.self]

\* the operator of the generic branch, by the declared type of the field
generic_leaf(prop_name, prop_type, value) ==
    IF prop_type = "status" THEN Leaf(prop_name, "status", "equals", value)
    ELSE IF prop_type = "select" THEN Leaf(prop_name, "select", "equals", value)
    ELSE IF prop_type = "multi_select"
    THEN Leaf(prop_name, "multi_select", "contains", value)
    ELSE Leaf(prop_name, "title", "equals", value)

\* a variant in which a generic filter that does not resolve clears the filter
generic_branch_clearing(st, filter) ==
    IF ~TruthyOpt(filter) THEN st
    ELSE IF "=" \notin Range(Get(filter)) THEN [st EXCEPT !.filter_obj = None]
    ELSE LET parts == split_once(Get(filter), "=")
             prop_name == strip(parts[1])
             value == strip(parts[2])
             r == find_property_by_name(st.self, prop_name) IN
         IF r.ret # None
         THEN [filter_obj |-> Some(generic_leaf(prop_name, Get(r.ret).type, value)),
               self |-> r.self]
         ELSE [filter_obj |-> None, self |-> r.self]

generic_branch(st, filter) ==
    IF ~TruthyOpt(filter) THEN st
    ELSE IF "=" \notin Range(Get(filter)) THEN st
    ELSE LET parts == split_once(Get(filter), "=")
             prop_name == strip(parts[1])
             value == strip(parts[2])
             r == find_property_by_name(st.self, prop_name) IN
         IF r.ret # None
         THEN [filter_obj |-> Some(generic_leaf(prop_name, Get(r.ret).type, value)),
               self |-> r.self]
         ELSE [st EXCEPT !.self = r.self]

\* a variant in which the tags branch runs last
build_filter_tags_last(self, status, tags, filter) ==
    tags_branch(
        generic_branch(status_branch([filter_obj |-> None, self |-> self], status), filter),
        tags)

build_filter(self, status, tags, filter) ==
    generic_branch(
        tags_branch(status_branch([filter_obj |-> None, self |-> self], status), tags),
        filter)

-----------------------------------------------------------------------------
(* cli.py: the command handlers.  The body of a handler's try block maps    *)
(* the process memory and the responses of the transport to [raised,        *)
(* outputs, calls, heap, _schemas]: the exception it raised (None if none), *)
(* the output_json calls and the transport calls it made, in order.         *)

output_json(success, data, error) ==
    [success |-> success, data |-> data, error |-> error]

Done(mem, calls, outputs) ==
    [raised |-> None, outputs |-> outputs, calls |-> calls,
     heap |-> mem.heap, _schemas |-> mem._schemas]

Failed(mem, calls, e) ==
    [raised |-> e, outputs |-> <<>>, calls |-> calls,
     heap |-> mem.heap, _schemas |-> mem._schemas]

\* the instance at ref replaced by its state after a method call
Store(mem, ref, self) == [mem EXCEPT !.heap[ref] = self]

\* the except clauses that close every handler
except_clauses(r) ==
    IF r.raised = None THEN r
    ELSE LET e == Get(r.raised) IN
         [r EXCEPT
            !.raised = None,
            !.outputs = Append(@, output_json(FALSE, None,
                IF e.type = "NotionAPIError"
                THEN Some([message |-> e.message, status_code |-> e.status_code])
                ELSE Some([message |-> e.message])))]

\* a variant that refuses nothing
status_never_invalid(status_options, status) == FALSE

\* cli.py line 109: the supplied status is refused
status_is_invalid(status_options, status) ==
    Truthy(status_options) /\ status \notin Range(status_options)

_read(mem, item_id, r_page) ==
    LET call == [method |-> "get_page", id |-> item_id]
        page == _request(r_page) IN
    IF page.raised # None THEN Failed(mem, <<call>>, page.raised)
    ELSE Done(mem, <<call>>,
              <<output_json(TRUE, Some([id |-> page.value.id,
                                        properties |-> page.value.properties]), None)>>)

_update_status(mem, database, item_id, status, r_schema, r_update) ==
    LET s == get_database_schema(mem, database, r_schema) IN
    IF s.raised # None THEN Failed(s, s.calls, s.raised)
    ELSE
    LET ref == Get(s.value)
        n == get_status_property_name(s.heap[ref])
        o == get_status_options(n.self)
        m == Store(s, ref, o.self) IN
    IF ~TruthyOpt(n.ret)
    THEN Done(Store(s, ref, n.self), s.calls,
              <<output_json(FALSE, None,
                    Some([message |-> <<"No status property found in database">>]))>>)
    ELSE IF status_is_invalid(o.ret, status)
    THEN Done(m, s.calls,
              <<output_json(FALSE, None,
                    Some([message |-> <<"Invalid status", status>>,
                          available_options |-> o.ret]))>>)
    ELSE
    LET call == [method |-> "update_page", id |-> item_id,
                 properties |-> [name |-> Get(n.ret), status |-> status]]
        u == _request(r_update) IN
    IF u.raised # None THEN Failed(m, Append(s.calls, call), u.raised)
    ELSE Done(m, Append(s.calls, call),
              <<output_json(TRUE, Some([id |-> item_id, status |-> status,
                                        property |-> Get(n.ret)]), None)>>)

_query(mem, database, status, tags, filter, r_schema, r_query) ==
    LET s == get_database_schema(mem, database, r_schema) IN
    IF s.raised # None THEN Failed(s, s.calls, s.raised)
    ELSE
    LET ref == Get(s.value)
        b == build_filter(s.heap[ref], status, tags, filter)
        m == Store(s, ref, b.self)
        call == [method |-> "query_database", id |-> database, filter |-> b.filter_obj]
        q == _request(r_query) IN
    IF q.raised # None THEN Failed(m, Append(s.calls, call), q.raised)
    ELSE Done(m, Append(s.calls, call),
              <<output_json(TRUE, Some([items |-> q.value.results,
                                        next_cursor |-> q.value.next_cursor,
                                        has_more |-> q.value.has_more]), None)>>)

_list_status(mem, database, r_schema) ==
    LET s == get_database_schema(mem, database, r_schema) IN
    IF s.raised # None THEN Failed(s, s.calls, s.raised)
    ELSE
    LET ref == Get(s.value)
        o == get_status_options(s.heap[ref])
        n == get_status_property_name(o.self) IN
    IF ~Truthy(o.ret)
    THEN Done(Store(s, ref, o.self), s.calls,
              <<output_json(FALSE, None,
                    Some([message |-> <<"No status property found in database">>]))>>)
    ELSE Done(Store(s, ref, n.self), s.calls,
              <<output_json(TRUE, Some([property_name |-> n.ret, options |-> o.ret]),
                            None)>>)

_list_tags(mem, database, r_schema) ==
    LET s == get_database_schema(mem, database, r_schema) IN
    IF s.raised # None THEN Failed(s, s.calls, s.raised)
    ELSE
    LET ref == Get(s.value)
        t == get_tag_property_names(s.heap[ref])
        m == Store(s, ref, t.self) IN
    IF ~Truthy(t.ret)
    THEN Done(m, s.calls,
              <<output_json(FALSE, None,
                    Some([message |-> <<"No tag properties found in database">>]))>>)
    ELSE Done(m, s.calls,
              <<output_json(TRUE,
                    Some([properties |-> t.ret,
                          tags_by_property |->
                              [i \in DOMAIN t.ret |-> get_tag_options(t.self, t.ret[i]).ret]]),
                    None)>>)

\* the `schema` command fetches the payload itself, past the cache
_schema(mem, database, r_schema) ==
    LET call == [method |-> "get_database", id |-> database]
        d == _request(r_schema) IN
    IF d.raised # None THEN Failed(mem, <<call>>, d.raised)
    ELSE Done(mem, <<call>>,
              <<output_json(TRUE,
                    Some([properties |->
                              [i \in DOMAIN d.value.properties |->
                                  IF d.value.properties[i].def.type = "title"
                                  THEN [name |-> d.value.properties[i].name,
                                        type |-> d.value.properties[i].def.type]
                                  ELSE [name |-> d.value.properties[i].name,
                                        type |-> d.value.properties[i].def.type,
                                        options |-> d.value.properties[i].def.options]]]),
                    None)>>)

-----------------------------------------------------------------------------
(* One process runs one command: `async with NotionClient() as client`,     *)
(* then the try block and its except clauses.  The arguments of the command *)
(* and the responses of the remote service are the inputs.                  *)

ItemIds == {"page1"}
CliDatabases == {"db1"}
StatusArgs == OptionNames
TagChars == {"a", ",", " "}
FilterChars == {"s", "=", " "}

Optional(S) == {None} \cup {Some(v) : v \in S}

QueryStatusArgs == Optional({<<>>, <<"A">>})
QueryTagsArgs ==
    Optional(SeqsUpTo(TagChars, MaxTagsLen) \cup {<<"a", ",", ",", "a">>})
\* every short --filter argument, and some longer ones: a key that is a
\* field's exact name, a key with a space before it, a value
QueryFilterArgs ==
    Optional(SeqsUpTo(FilterChars, MaxFilterLen)
             \cup {<<"t", "=">>, <<" ", "s", "=">>, <<"s", "=", "s">>})

\* `query` reads no option list: its payloads declare none
PlainFieldDefs == {[type |-> t, options |-> <<>>] : t \in Types}

PageBodies == {[id |-> "page1", properties |-> <<>>]}
QueryBodies == {[results |-> <<>>, next_cursor |-> None, has_more |-> FALSE]}

\* the command lines
CommandLines ==
    {[cmd |-> "read", args |-> [database |-> d, item_id |-> i]] :
        d \in CliDatabases, i \in ItemIds}
    \cup {[cmd |-> "update_status",
           args |-> [database |-> d, item_id |-> i, status |-> s]] :
              d \in CliDatabases, i \in ItemIds, s \in StatusArgs}
    \cup {[cmd |-> "query",
           args |-> [database |-> d, status |-> s, tags |-> t, filter |-> f]] :
              d \in CliDatabases, s \in QueryStatusArgs, t \in QueryTagsArgs,
              f \in QueryFilterArgs}
    \cup {[cmd |-> c, args |-> [database |-> d]] :
              c \in {"list_status", "list_tags", "schema"}, d \in CliDatabases}

\* the process as it starts: its environment and its command line
Started(line) ==
    [cmd |-> line.cmd, args |-> line.args, done |-> FALSE,
     calls |-> <<>>, responses |-> <<>>, outputs |-> <<>>, escaped |-> None]

Init ==
    /\ environ \in Optional({<<>>, <<"k">>})
    /\ remote = <<>>
    /\ heap = <<>>
    /\ _schemas = {}
    /\ ret = NoRet
    /\ trace = NoTrace
    /\ \E line \in CommandLines : run = Started(line)

\* `async with NotionClient() as client` stands outside the try block: what it
\* raises leaves the handler, and nothing is printed
ClientFails == NotionClient(None, environ).raised # None

Escapes ==
    /\ run' = [run EXCEPT !.done = TRUE, !.escaped = NotionClient(None, environ).raised]
    /\ UNCHANGED <<environ, remote, heap, _schemas, ret, trace>>

\* the try block r and the except clauses of the handler; `responses` are the
\* responses the transport holds ready, of which the calls made consume a prefix
Completes(r, responses) ==
    LET h == except_clauses(r) IN
    /\ run' = [run EXCEPT !.done = TRUE, !.calls = h.calls,
                          !.responses = SubSeq(responses, 1, Len(h.calls)),
                          !.outputs = h.outputs, !.escaped = h.raised]
    /\ heap' = h.heap
    /\ _schemas' = h._schemas
    /\ UNCHANGED <<environ, remote, ret, trace>>

Runs(cmd) == run.cmd = cmd /\ ~run.done

\* the responses to GET /databases/{id}: a payload over the definitions defs,
\* or a failure
SchemaResponse(defs, Handle(_)) ==
    \/ \E k \in KeyLists : \E d \in DefsFor(k, defs) : Handle(Ok(Payload(k, d)))
    \/ \E response \in Failures : Handle(response)

read ==
    /\ Runs("read")
    /\ IF ClientFails THEN Escapes
       ELSE \E r_page \in Responses(PageBodies) :
                Completes(_read(Memory, run.args.item_id, r_page), <<r_page>>)

update_status ==
    /\ Runs("update_status")
    /\ IF ClientFails THEN Escapes
       ELSE \E r_update \in Responses(PageBodies) :
                SchemaResponse(FieldDefs,
                    LAMBDA r_schema :
                        Completes(_update_status(Memory, run.args.database,
                                                 run.args.item_id, run.args.status,
                                                 r_schema, r_update),
                                  <<r_schema, r_update>>))

query ==
    /\ Runs("query")
    /\ IF ClientFails THEN Escapes
       ELSE \E r_query \in Responses(QueryBodies) :
                SchemaResponse(PlainFieldDefs,
                    LAMBDA r_schema :
                        Completes(_query(Memory, run.args.database, run.args.status,
                                         run.args.tags, run.args.filter,
                                         r_schema, r_query),
                                  <<r_schema, r_query>>))

list_status ==
    /\ Runs("list_status")
    /\ IF ClientFails THEN Escapes
       ELSE SchemaResponse(FieldDefs,
                LAMBDA r_schema :
                    Completes(_list_status(Memory, run.args.database, r_schema),
                              <<r_schema>>))

list_tags ==
    /\ Runs("list_tags")
    /\ IF ClientFails THEN Escapes
       ELSE SchemaResponse(FieldDefs,
                LAMBDA r_schema :
                    Completes(_list_tags(Memory, run.args.database, r_schema),
                              <<r_schema>>))

schema ==
    /\ Runs("schema")
    /\ IF ClientFails THEN Escapes
       ELSE SchemaResponse(FieldDefs,
                LAMBDA r_schema :
                    Completes(_schema(Memory, run.args.database, r_schema),
                              <<r_schema>>))

Next == read \/ update_status \/ query \/ list_status \/ list_tags \/ schema

Spec == Init /\ [][Next]_vars

-----------------------------------------------------------------------------
(* transform.py: transform_property_value.  The values of a property        *)
(* payload and the values the function returns are JSON values, each with   *)
(* its kind: None, Str(s), Num(n), Bool(b), List(l), Dict(d) with d a       *)
(* record, and Tag(t) for the str under the key "type".                     *)

Str(s) == <<"str", s>>
Num(n) == <<"num", n>>
Bool(b) == <<"bool", b>>
List(l) == <<"list", l>>
Dict(d) == <<"dict", d>>
Tag(t) == <<"tag", t>>

EmptyDict == Dict(<<>>)

\* d.get(key): None when the key is missing
dict_get(d, key) == IF key \in DOMAIN d[2] THEN d[2][key] ELSE None

\* d.get(key, default)
dict_get_or(d, key, default) == IF key \in DOMAIN d[2] THEN d[2][key] ELSE default

\* truth value of a JSON value: None, "", [] and {} are false
truthy(v) == v \notin {None, Str(<<>>), List(<<>>), EmptyDict, Bool(FALSE), Num(0)}

\* "".join(strs)
RECURSIVE join(_)
join(strs) == IF strs = <<>> THEN <<>> ELSE Head(strs) \o join(Tail(strs))

\* "".join(t.get("plain_text", "") for t in texts)
plain_text_of(texts) ==
    Str(join([i \in DOMAIN texts[2] |->
                 dict_get_or(texts[2][i], "plain_text", Str(<<>>))[2]]))

\* [x.get(key) for x in items]
each_get(items, key) == List([i \in DOMAIN items[2] |-> dict_get(items[2][i], key)])

\* the strings of a date: a str is a sequence of pieces here, a day
\* YYYY-MM-DD, the letter T, a time hh:mm:ss, or other text
Days == {"2024-01-15"}
Times == {"10:30:00"}

\* datetime.fromisoformat(start).isoformat(): a day alone gets midnight as
\* its time; what is no ISO date raises ValueError
fromisoformat_isoformat(start) ==
    IF Len(start) = 1 /\ start[1] \in Days
    THEN Returned(<<start[1], "T", "00:00:00">>)
    ELSE IF Len(start) = 3 /\ start[1] \in Days /\ start[2] = "T" /\ start[3] \in Times
    THEN Returned(start)
    ELSE Raised([type |-> "ValueError", message |-> <<"Invalid isoformat string">>])

\* the branch of the type tag "date"
transform_date(prop_data) ==
    LET date_data == dict_get(prop_data, "date") IN
    IF ~truthy(date_data) THEN None
    ELSE LET start == dict_get(date_data, "start") IN
         IF ~truthy(start) THEN None
         ELSE LET iso == fromisoformat_isoformat(start[2]) IN
              IF iso.raised # None THEN start ELSE Str(iso.value)

\* the branches of the type tags "select" and "status"
transform_named(prop_data, key) ==
    LET data == dict_get(prop_data, key) IN
    IF truthy(data) THEN dict_get(data, "name") ELSE None

\* a variant that answers None to a type tag it does not know
transform_unknown_none(prop_data) == None

\* for unknown types, return raw data
transform_unknown(prop_data) == prop_data

RECURSIVE transform_property_value(_)

\* a variant that returns the nested value as it is
transform_formula_raw(prop_data) == dict_get_or(prop_data, "formula", EmptyDict)

\* the branch of the type tag "formula"
transform_formula(prop_data) ==
    transform_property_value(dict_get_or(prop_data, "formula", EmptyDict))

transform_property_value(prop_data) ==
    LET prop_type == dict_get(prop_data, "type") IN
    CASE prop_type = Tag("title") ->
             plain_text_of(dict_get_or(prop_data, "title", List(<<>>)))
      [] prop_type = Tag("rich_text") ->
             plain_text_of(dict_get_or(prop_data, "rich_text", List(<<>>)))
      [] prop_type = Tag("number") -> dict_get(prop_data, "number")
      [] prop_type = Tag("select") -> transform_named(prop_data, "select")
      [] prop_type = Tag("multi_select") ->
             each_get(dict_get_or(prop_data, "multi_select", List(<<>>)), "name")
      [] prop_type = Tag("status") -> transform_named(prop_data, "status")
      [] prop_type = Tag("date") -> transform_date(prop_data)
      [] prop_type = Tag("checkbox") -> dict_get(prop_data, "checkbox")
      [] prop_type = Tag("url") -> dict_get(prop_data, "url")
      [] prop_type = Tag("email") -> dict_get(prop_data, "email")
      [] prop_type = Tag("phone_number") -> dict_get(prop_data, "phone_number")
      [] prop_type = Tag("formula") -> transform_formula(prop_data)
      [] prop_type = Tag("relation") ->
             each_get(dict_get_or(prop_data, "relation", List(<<>>)), "id")
      [] prop_type = Tag("people") ->
             each_get(dict_get_or(prop_data, "people", List(<<>>)), "id")
      [] prop_type = Tag("files") ->
             each_get(dict_get_or(prop_data, "files", List(<<>>)), "name")
      [] prop_type = Tag("created_time") -> dict_get(prop_data, "created_time")
      [] prop_type = Tag("created_by") -> dict_get(prop_data, "created_by")
      [] prop_type = Tag("last_edited_time") -> dict_get(prop_data, "last_edited_time")
      [] prop_type = Tag("last_edited_by") -> dict_get(prop_data, "last_edited_by")
      [] OTHER -> transform_unknown(prop_data)

-----------------------------------------------------------------------------
(* The property payloads of the remote service, and the normalizer applied  *)
(* to one of them.                                                          *)

\* a payload of type tag t whose value v stands under the key k
Tagged(t, k, v) == Dict([type |-> Tag(t)] @@ (k :> v))

\* the payloads of a type tag t whose key is missing or holds one of `values`
PayloadsOf(t, values) == {Dict([type |-> Tag(t)])} \cup {Tagged(t, t, v) : v \in values}

ListsOf(items) == {List(l) : l \in SeqsUpTo(items, MaxItems)}

TextObjects == {Dict([plain_text |-> Str(<<"a">>)]), Dict([plain_text |-> Str(<<"b">>)]),
                EmptyDict}
NameObjects == {Dict([name |-> Str(<<"A">>)]), Dict([name |-> None]), EmptyDict}
IdObjects == {Dict([id |-> Str(<<"u">>)]), EmptyDict}
Strs == {None, Str(<<>>), Str(<<"a">>)}
DateStrs ==
    {None, Str(<<>>), Str(<<"2024-01-15">>), Str(<<"2024-01-15", "T", "10:30:00">>),
     Str(<<"soon">>)}

\* the payloads that are no formula
FlatPayloads ==
    PayloadsOf("title", ListsOf(TextObjects))
    \cup PayloadsOf("rich_text", ListsOf(TextObjects))
    \cup PayloadsOf("number", {None, Num(0), Num(5)})
    \cup PayloadsOf("select", {None} \cup NameObjects)
    \cup PayloadsOf("multi_select", ListsOf(NameObjects))
    \cup PayloadsOf("status", {None} \cup NameObjects)
    \cup PayloadsOf("date", {None, EmptyDict} \cup {Dict([start |-> d]) : d \in DateStrs})
    \cup PayloadsOf("checkbox", {None, Bool(TRUE), Bool(FALSE)})
    \cup PayloadsOf("url", Strs)
    \cup PayloadsOf("email", Strs)
    \cup PayloadsOf("phone_number", Strs)
    \cup PayloadsOf("relation", ListsOf(IdObjects))
    \cup PayloadsOf("people", ListsOf(IdObjects))
    \cup PayloadsOf("files", ListsOf(NameObjects))
    \cup PayloadsOf("created_time", Strs)
    \cup PayloadsOf("created_by", {None} \cup IdObjects)
    \cup PayloadsOf("last_edited_time", Strs)
    \cup PayloadsOf("last_edited_by", {None} \cup IdObjects)
    \cup PayloadsOf("rollup", {Dict([type |-> Tag("number"), number |-> Num(5)])})
    \cup PayloadsOf("exotic", {EmptyDict, Dict([name |-> Str(<<"A">>)])})
    \cup {EmptyDict, Dict([number |-> Num(5)]), Dict([formula |-> EmptyDict])}

\* the payloads with at most n formula payloads around a flat one
RECURSIVE PropertyPayloads(_)
PropertyPayloads(n) ==
    IF n = 0 THEN FlatPayloads
    ELSE FlatPayloads
         \cup PayloadsOf("formula", PropertyPayloads(n - 1))

InitNormalize ==
    /\ environ = None
    /\ remote \in {[property |-> p] : p \in PropertyPayloads(MaxDepth)}
    /\ heap = <<>>
    /\ _schemas = {}
    /\ ret = NoRet
    /\ trace = NoTrace
    /\ run = NoRun

Normalize ==
    /\ ret = NoRet
    /\ ret' = [op |-> "transform_property_value", arg |-> remote.property,
               ret |-> transform_property_value(remote.property)]
    /\ trace' = [trace EXCEPT !.calls = @ + 1]
    /\ UNCHANGED <<environ, remote, heap, _schemas, run>>

NextNormalize == Normalize

SpecNormalize == InitNormalize /\ [][NextNormalize]_vars

-----------------------------------------------------------------------------
(* What the claims speak of, stated apart from the code above. *)

Min(S) == CHOOSE x \in S : \A y \in S : x <= y
Max(S) == CHOOSE x \in S : \A y \in S : x >= y

\* the k-th smallest element of a set of numbers
Kth(S, k) == CHOOSE x \in S : Cardinality({y \in S : y < x}) = k - 1

\* s without the spaces at its ends
Trimmed(s) ==
    LET solid == {i \in DOMAIN s : s[i] # " "} IN
    IF solid = {} THEN <<>> ELSE SubSeq(s, Min(solid), Max(solid))

\* the pieces of s between its occurrences of sep, trimmed: one more than
\* there are occurrences
Tokens(s, sep) ==
    LET at == {i \in DOMAIN s : s[i] = sep}
        n == Cardinality(at) IN
    [k \in 1..(n + 1) |->
        Trimmed(SubSeq(s,
                       IF k = 1 THEN 1 ELSE Kth(at, k - 1) + 1,
                       IF k = n + 1 THEN Len(s) ELSE Kth(at, k) - 1))]

\* the positions of the fields of a type, and the names of those fields in order
FieldsOfType(payload, type) ==
    {i \in DOMAIN payload.properties : payload.properties[i].def.type = type}

IsOfType(type, field) == field.def.type = type

IsMultiSelect(field) == IsOfType("multi_select", field)

MultiSelectNames(payload) ==
    LET fs == SelectSeq(payload.properties, IsMultiSelect) IN
    [i \in DOMAIN fs |-> fs[i].name]

\* the first status field of a payload, None if it has none
FirstStatus(payload) ==
    IF FieldsOfType(payload, "status") = {} THEN None
    ELSE Some(payload.properties[Min(FieldsOfType(payload, "status"))])

FirstStatusName(payload) ==
    IF FirstStatus(payload) = None THEN None ELSE Some(Get(FirstStatus(payload)).name)

\* the names of a declared option list that are not empty, in declared order
RECURSIVE NonEmptyNames(_)
NonEmptyNames(options) ==
    IF options = <<>> THEN <<>>
    ELSE IF Head(options) # None /\ Get(Head(options)) # <<>>
         THEN <<Get(Head(options))>> \o NonEmptyNames(Tail(options))
         ELSE NonEmptyNames(Tail(options))

\* the Schema Model under test in SpecSchema, and the one a command resolved
TheModel == heap[1]
ThePayload == heap[1].schema_data

\* the command resolved its schema
Resolved == run.done /\ run.escaped = None /\ heap # <<>>

Issued(method) == {i \in DOMAIN run.calls : run.calls[i].method = method}

-----------------------------------------------------------------------------
(* C1: update-status and a status value that is not among statusOptions(). *)

StatusOptionsNow == get_status_options(TheModel).ret

RefusedListingOptions ==
    run.outputs =
        <<output_json(FALSE, None,
              Some([message |-> <<"Invalid status", run.args.status>>,
                    available_options |-> StatusOptionsNow]))>>

\* C1, as claimed: update-status on a schema with a status field refuses every
\* status value that is not among statusOptions(), the empty option list
\* included, with an error that lists the options, and issues no update call.
C1_RefusesEveryAbsentStatus ==
    (/\ run.cmd = "update_status"
     /\ Resolved
     /\ FirstStatus(ThePayload) # None
     /\ run.args.status \notin Range(StatusOptionsNow))
    => (RefusedListingOptions /\ Issued("update_page") = {})

\* C1, amended: update-status refuses every status value that is not among a
\* non-empty statusOptions() with an error that lists all the options, and
\* issues no update call in that invocation.
C1_RefusesAbsentStatus ==
    (/\ run.cmd = "update_status"
     /\ Resolved
     /\ StatusOptionsNow # <<>>
     /\ run.args.status \notin Range(StatusOptionsNow))
    => (RefusedListingOptions /\ Issued("update_page") = {})

C1_Witness ==
    /\ run.cmd = "update_status"
    /\ Resolved
    /\ Len(StatusOptionsNow) = 2
    /\ run.args.status \notin Range(StatusOptionsNow)
    /\ RefusedListingOptions
    /\ Len(run.calls) = 1

-----------------------------------------------------------------------------
(* C2: every command ends with one explicit result. *)

\* C2: whatever fails (the remote API, a missing status field, an invalid
\* value, a missing credential, anything else), a command ends with exactly
\* one success/failure result and no exception leaves it.
C2_OneResultNothingEscapes ==
    run.done => (Len(run.outputs) = 1 /\ run.escaped = None)

-----------------------------------------------------------------------------
(* C3: the schema cache. *)

\* C3: between two clear(), the resolutions of one database identifier that
\* return make one fetch in all; each returns the very model the first of
\* them built, whatever the remote schema has become; and the cache holds
\* at most one model per identifier.
C3_OneFetchOneModel ==
    /\ \A d \in Databases : trace.resolved[d] >= 1 => trace.fetched[d] = 1
    /\ (ret.op = "get_database_schema" /\ ret.raised = None)
           => /\ trace.first[ret.arg] # None
              /\ Get(trace.first[ret.arg]).ref = Get(ret.ret)
              /\ Get(trace.first[ret.arg]).model = heap[Get(ret.ret)]
    /\ \A e1, e2 \in _schemas : e1.id = e2.id => e1 = e2

C3_Witness ==
    /\ ret.op = "get_database_schema"
    /\ ret.raised = None
    /\ trace.resolved[ret.arg] >= 2
    /\ heap[Get(ret.ret)].schema_data # remote[ret.arg]
    /\ Cardinality(_schemas) = 2

-----------------------------------------------------------------------------
(* C4, C5, C6: the filter that `query` passes to the query call. *)

QueryIssued == run.cmd = "query" /\ Resolved /\ Issued("query_database") # {}

\* the filter of the query call: None or Some(filter)
QueryFilter == run.calls[Min(Issued("query_database"))].filter

\* the schema as the command resolved it, before any lookup
FreshModel == DatabaseSchema(run.args.database, ThePayload)

NoFilter == [filter_obj |-> None, self |-> FreshModel]

\* what each branch emits when it runs alone: None if it does not apply
StatusAlone == status_branch(NoFilter, run.args.status).filter_obj
TagsAlone == tags_branch(NoFilter, run.args.tags).filter_obj
GenericAlone == generic_branch(NoFilter, run.args.filter).filter_obj

\* C4: the filter of the query call is the predicate of the last branch, in
\* the order status, tags, generic, that applies; the branches are never
\* combined, and when all three apply it is the generic predicate.
C4_LastApplicableBranchWins ==
    QueryIssued =>
        QueryFilter = IF GenericAlone # None THEN GenericAlone
                      ELSE IF TagsAlone # None THEN TagsAlone
                      ELSE StatusAlone

C4_Witness ==
    /\ QueryIssued
    /\ StatusAlone # None /\ TagsAlone # None /\ GenericAlone # None
    /\ StatusAlone # TagsAlone /\ TagsAlone # GenericAlone /\ StatusAlone # GenericAlone
    /\ QueryFilter = GenericAlone

TagLeaf(field, token) ==
    [property |-> field, key |-> "multi_select", condition |-> <<"contains", token>>]

\* the generic argument emits nothing: it is absent or does not resolve
GenericSilent == GenericAlone = None

\* C5: a tags argument is split on commas and each token trimmed; on the
\* first multi-select field F of the schema one token t gives the leaf
\* {F multi_select contains t}, k >= 2 tokens give the conjunction of k such
\* leaves in argument order, and a schema without multi-select field gives
\* no predicate (the filter stays what the status branch made it).
C5_TagsBranch ==
    (QueryIssued /\ TruthyOpt(run.args.tags) /\ GenericSilent) =>
        LET tokens == Tokens(Get(run.args.tags), ",")
            fields == MultiSelectNames(ThePayload) IN
        IF fields = <<>> THEN QueryFilter = StatusAlone
        ELSE IF Len(tokens) = 1 THEN QueryFilter = Some(TagLeaf(fields[1], tokens[1]))
        ELSE /\ QueryFilter # None
             /\ DOMAIN Get(QueryFilter) = {"and"}
             /\ Len(Get(QueryFilter).and) = Len(tokens)
             /\ \A k \in DOMAIN tokens :
                    Get(QueryFilter).and[k] = TagLeaf(fields[1], tokens[k])

C5_Witness ==
    /\ QueryIssued /\ GenericSilent
    /\ run.args.tags = Some(<<"a", ",">>)
    /\ Len(MultiSelectNames(ThePayload)) = 2
    /\ QueryFilter # None
    /\ DOMAIN Get(QueryFilter) = {"and"}
    /\ Len(Get(QueryFilter).and) = 2

\* the generic argument has no "=", or its trimmed key names no field of the
\* schema whatever the case of its letters
Unresolvable(filter) ==
    LET eq == {i \in DOMAIN filter : filter[i] = "="}
        key == Trimmed(SubSeq(filter, 1, Min(eq) - 1)) IN
    \/ eq = {}
    \/ \A i \in DOMAIN ThePayload.properties :
           lower(ThePayload.properties[i].name) # lower(key)

\* what the status and tags branches made of the filter
PriorFilter ==
    tags_branch(status_branch(NoFilter, run.args.status), run.args.tags).filter_obj

\* C6: a generic argument without "=" or whose key is no field of the schema
\* leaves the filter of the status and tags branches as it is, raises no
\* error, and the query call is issued with that filter.
C6_GenericNoOp ==
    (/\ run.cmd = "query"
     /\ Resolved
     /\ run.args.filter # None
     /\ Unresolvable(Get(run.args.filter)))
    => /\ Len(run.calls) = 2
       /\ Issued("query_database") = {2}
       /\ QueryFilter = PriorFilter

C6_Witness ==
    /\ QueryIssued
    /\ run.args.filter = Some(<<" ", "s", "=">>)
    /\ Unresolvable(Get(run.args.filter))
    /\ PriorFilter # None
    /\ QueryFilter = PriorFilter
    /\ run.outputs[1].success

-----------------------------------------------------------------------------
(* C7 to C10: the lookups of the Schema Model. *)

\* C7: a Schema Model scans its field definitions at most once for
\* statusPropertyName() and at most once for tagPropertyNames(), also when
\* the result is absent or empty.
C7_ScansAtMostOnce == trace.status_scans <= 1 /\ trace.tag_scans <= 1

\* C8: every call of statusPropertyName() returns the name of the first
\* status field in schema order, or absent when there is none.
C8_FirstStatusField ==
    ret.op = "get_status_property_name" => ret.ret = FirstStatusName(ThePayload)

C8_Witness ==
    /\ ret.op = "get_status_property_name"
    /\ trace.calls = MaxCalls
    /\ trace.status_scans = 1
    /\ Cardinality(FieldsOfType(ThePayload, "status")) = 2

\* C9: every call of tagPropertyNames(), the first as the later ones, returns
\* the names of the multi-select fields, all of them and nothing else, in
\* schema order; a list also when there is none.
C9_AllMultiSelectFields ==
    ret.op = "get_tag_property_names" => ret.ret = MultiSelectNames(ThePayload)

C9_Witness ==
    /\ ret.op = "get_tag_property_names"
    /\ trace.calls = MaxCalls
    /\ trace.tag_scans = 1
    /\ Len(ret.ret) = 2

\* C10: statusOptions() and tagOptions(field) hold no empty name: they are the
\* non-empty names of the declared options in declared order, statusOptions()
\* of the first status field and empty without one, tagOptions(field) of the
\* multi-select field of that name and empty when no field has it.
C10_OptionsWithoutEmptyNames ==
    /\ ret.op \in {"get_status_options", "get_tag_options"}
           => \A i \in DOMAIN ret.ret : ret.ret[i] # <<>>
    /\ ret.op = "get_status_options"
           => ret.ret = IF FirstStatus(ThePayload) = None THEN <<>>
                        ELSE NonEmptyNames(Get(FirstStatus(ThePayload)).def.options)
    /\ ret.op = "get_tag_options"
           => LET named == {i \in DOMAIN ThePayload.properties :
                               ThePayload.properties[i].name = Get(ret.arg)} IN
              /\ named = {} => ret.ret = <<>>
              /\ \A i \in named \cap FieldsOfType(ThePayload, "multi_select") :
                     ret.ret = NonEmptyNames(ThePayload.properties[i].def.options)

C10_Witness ==
    /\ ret.op = "get_tag_options"
    /\ \E i \in FieldsOfType(ThePayload, "multi_select") :
           /\ ThePayload.properties[i].name = Get(ret.arg)
           /\ ThePayload.properties[i].def.options = <<Some(<<>>), Some(<<"B">>)>>
    /\ ret.ret = <<<<"B">>>>

-----------------------------------------------------------------------------
(* C13: the round trips of update-status and query. *)

SchemaFetches == Issued("get_database")
OperationCalls == Issued("update_page") \cup Issued("query_database")

\* the schema fetch was issued and the remote service gave no schema
SchemaFetchFailed ==
    /\ run.calls # <<>>
    /\ run.calls[1].method = "get_database"
    /\ run.responses[1] \in Failures

\* the one result of the invocation is the failure the response stands for:
\* for an HTTP error its status code, and its message when it has one
ReportsUpstream(response) ==
    /\ Len(run.outputs) = 1
    /\ ~run.outputs[1].success
    /\ run.outputs[1].data = None
    /\ run.outputs[1].error # None
    /\ "message" \in DOMAIN Get(run.outputs[1].error)
    /\ response.kind = "http" =>
           /\ "status_code" \in DOMAIN Get(run.outputs[1].error)
           /\ Get(run.outputs[1].error).status_code = response.status_code
           /\ response.body.message # None =>
                  Get(run.outputs[1].error).message = Get(response.body.message)

\* C13: an invocation of update-status or query issues at most one schema
\* fetch and at most one operation call (update or query), the fetch before
\* the operation call; when the schema fetch fails the operation call is not
\* issued and the invocation ends with one error that carries the upstream
\* status code and message.
C13_RoundTripOrder ==
    (run.cmd \in {"update_status", "query"} /\ run.done) =>
        /\ Cardinality(SchemaFetches) <= 1
        /\ Cardinality(OperationCalls) <= 1
        /\ Len(run.calls) = Cardinality(SchemaFetches) + Cardinality(OperationCalls)
        /\ \A i \in SchemaFetches, j \in OperationCalls : i < j
        /\ OperationCalls # {} => SchemaFetches # {}
        /\ SchemaFetchFailed =>
               (OperationCalls = {} /\ ReportsUpstream(run.responses[1]))

C13_Witness ==
    /\ run.cmd = "update_status"
    /\ run.done
    /\ SchemaFetchFailed
    /\ run.responses[1].kind = "http"
    /\ run.responses[1].status_code = 404
    /\ run.calls = <<[method |-> "get_database", id |-> run.args.database]>>
    /\ run.outputs =
           <<output_json(FALSE, None,
                 Some([message |-> <<"Could not find object">>, status_code |-> 404]))>>

-----------------------------------------------------------------------------
(* C14: the error for a schema without status field. *)

NoStatusPropertyError ==
    run.outputs =
        <<output_json(FALSE, None,
              Some([message |-> <<"No status property found in database">>]))>>

\* update-status went on to the validation of the value: it refused the value
\* as invalid or issued the update call
ReachedValidation == RefusedListingOptions \/ Issued("update_page") # {}

\* C14: update-status and list-status report "no status property found"
\* exactly when the resolved schema has no status field; with a status field
\* list-status succeeds with that field's name and its option list, and
\* update-status goes on to the validation of the value.
C14_SchemaMissingExactly ==
    (run.cmd \in {"update_status", "list_status"} /\ Resolved) =>
        /\ NoStatusPropertyError <=> FirstStatus(ThePayload) = None
        /\ (run.cmd = "list_status" /\ FirstStatus(ThePayload) # None) =>
               run.outputs =
                   <<output_json(TRUE,
                         Some([property_name |-> FirstStatusName(ThePayload),
                               options |-> NonEmptyNames(
                                   Get(FirstStatus(ThePayload)).def.options)]),
                         None)>>
        /\ (run.cmd = "update_status" /\ FirstStatus(ThePayload) # None) =>
               ReachedValidation

-----------------------------------------------------------------------------
(* C15: a tags argument that is empty or blank. *)

\* the query ran on a schema with a tag field, a tags argument was supplied
\* and the generic branch left the filter alone
TagsSupplied ==
    /\ QueryIssued
    /\ run.args.tags # None
    /\ GenericSilent
    /\ MultiSelectNames(ThePayload) # <<>>

TagField == MultiSelectNames(ThePayload)[1]

Commas(s) == {i \in DOMAIN s : s[i] = ","}

\* the leaves of a filter of the tags branch
LeavesOf(filter) ==
    IF filter = None THEN <<>>
    ELSE IF DOMAIN Get(filter) = {"and"} THEN Get(filter).and
    ELSE <<Get(filter)>>

\* C15, as claimed: a tags argument that is the empty string or only
\* whitespace makes one empty token and, on a schema with tag field F, the
\* single leaf {F multi_select contains ""}; empty tokens are never dropped.
C15_BlankTagsOneEmptyToken ==
    TagsSupplied =>
        /\ Trimmed(Get(run.args.tags)) = <<>> =>
               QueryFilter = Some(TagLeaf(TagField, <<>>))
        /\ Len(LeavesOf(QueryFilter)) = Cardinality(Commas(Get(run.args.tags))) + 1

\* C15, amended: a tags argument of one or more characters, all whitespace,
\* makes one empty token and the single leaf {F multi_select contains ""};
\* a non-empty argument gives one leaf per token, the empty tokens included;
\* the empty string is taken as no tags argument and the tags branch leaves
\* the filter as the status branch made it.
C15_BlankTags ==
    TagsSupplied =>
        /\ Get(run.args.tags) = <<>> => QueryFilter = StatusAlone
        /\ (Get(run.args.tags) # <<>> /\ Trimmed(Get(run.args.tags)) = <<>>) =>
               QueryFilter = Some(TagLeaf(TagField, <<>>))
        /\ Get(run.args.tags) # <<>> =>
               /\ Len(LeavesOf(QueryFilter)) =
                      Cardinality(Commas(Get(run.args.tags))) + 1
               /\ \A k \in DOMAIN LeavesOf(QueryFilter) :
                      LeavesOf(QueryFilter)[k] =
                          TagLeaf(TagField, Tokens(Get(run.args.tags), ",")[k])

C15_Witness ==
    /\ TagsSupplied
    /\ run.args.tags = Some(<<" ">>)
    /\ run.args.status = Some(<<"A">>)
    /\ StatusAlone # None
    /\ QueryFilter = Some(TagLeaf(TagField, <<>>))

-----------------------------------------------------------------------------
(* C16: the leaves of the filter and the fields of the schema. *)

\* the key and operator of a leaf on a field of the declared type
OperatorFor(type) ==
    CASE type = "status" -> <<"status", "equals">>
      [] type = "select" -> <<"select", "equals">>
      [] type = "multi_select" -> <<"multi_select", "contains">>
      [] OTHER -> <<"title", "equals">>

\* the fields of the schema whose key is exactly this name
FieldsNamed(name) ==
    {i \in DOMAIN ThePayload.properties : ThePayload.properties[i].name = name}

\* C16: every leaf of a filter passed to the query call names a field by an
\* exact key of the schema and uses the operator of that field's declared
\* type, whatever the status, tags and generic arguments, a generic key that
\* differs from the field's name in letter case included.
C16_LeavesNameSchemaFields ==
    QueryIssued =>
        \A k \in DOMAIN LeavesOf(QueryFilter) :
            LET leaf == LeavesOf(QueryFilter)[k] IN
            /\ FieldsNamed(leaf.property) # {}
            /\ \A i \in FieldsNamed(leaf.property) :
                   <<leaf.key, leaf.condition[1]>> =
                       OperatorFor(ThePayload.properties[i].def.type)

-----------------------------------------------------------------------------
(* C11, C12: the value normalizer on formula payloads and on unknown type   *)
(* tags.                                                                    *)

Normalized == ret.op = "transform_property_value"

\* the type tag of a payload, None if it has none
TypeTag(payload) == IF "type" \in DOMAIN payload[2] THEN payload[2].type ELSE None

IsFormula(payload) == TypeTag(payload) = Tag("formula")

\* the computed value a formula payload carries: an empty one if it has none
Nested(payload) ==
    IF "formula" \in DOMAIN payload[2] THEN payload[2].formula ELSE EmptyDict

\* the payload inside all the formula payloads around it, and their number
RECURSIVE Innermost(_)
Innermost(payload) ==
    IF IsFormula(payload) THEN Innermost(Nested(payload)) ELSE payload

RECURSIVE Depth(_)
Depth(payload) == IF IsFormula(payload) THEN 1 + Depth(Nested(payload)) ELSE 0

\* the type tags the normalizer knows
RecognizedTags ==
    {Tag(t) : t \in {"title", "rich_text", "number", "select", "multi_select", "status",
                     "date", "checkbox", "url", "email", "phone_number", "formula",
                     "relation", "people", "files", "created_time", "created_by",
                     "last_edited_time", "last_edited_by"}}

\* C11: the normal form of a formula payload is the normal form of the
\* computed value nested in it, whatever the type tag of that value: around a
\* number n it is n, around a payload of unknown type tag it is that payload
\* unchanged, through every level of nesting.
C11_FormulaUnwraps ==
    (Normalized /\ IsFormula(ret.arg)) =>
        LET inner == Innermost(ret.arg) IN
        /\ ret.ret = transform_property_value(Nested(ret.arg))
        /\ TypeTag(inner) = Tag("number") =>
               ret.ret = IF "number" \in DOMAIN inner[2] THEN inner[2].number ELSE None
        /\ TypeTag(inner) \notin RecognizedTags => ret.ret = inner

C11_Witness ==
    /\ Normalized
    /\ Depth(ret.arg) = MaxDepth
    /\ Innermost(ret.arg) = Tagged("number", "number", Num(5))
    /\ ret.ret = Num(5)

\* C12: the normal form of a payload whose type tag is none of the known
\* tags, a missing tag included, is the whole payload, equal to the input.
C12_UnknownPassesThrough ==
    (Normalized /\ TypeTag(ret.arg) \notin RecognizedTags) => ret.ret = ret.arg

C12_Witness ==
    /\ Normalized
    /\ ret.arg = Tagged("exotic", "exotic", Dict([name |-> Str(<<"A">>)]))
    /\ ret.ret = ret.arg

====
